---- MODULE Spec2Model ----
(***************************************************************************)
(* Trackfolio (src/app.py): a Streamlit script that extracts the text of   *)
(* an uploaded CV, asks a generative backend for a fit summary, appends    *)
(* the application to data/job_tracker.csv and shows the stored table.     *)
(*                                                                         *)
(* Three specifications share the module's variables:                      *)
(*   Spec      one user, one script run per step (submit or plain render); *)
(*   SpecStore save_tracker / load_tracker applied to bounded inputs;      *)
(*   SpecConc  two sessions running save_tracker against the same file,    *)
(*             one file-system operation per step.                         *)
(***************************************************************************)
EXTENDS Integers, Sequences, FiniteSets, TLC

VARIABLES
    file,       \* data/job_tracker.csv: [exists, lines]; lines[1] is the header
    before,     \* the file as the last script run or store operation found it
    df,         \* the table the last load_tracker() returned
    trace,      \* calls and ui output of the last script run, in program order
    last,       \* the inputs of the last script run
    prior,      \* SpecStore: the table load_tracker() gave before the last save
    newRows,    \* SpecStore: the rows handed to the last save_tracker
    spc,        \* SpecStore: "idle", "saved" (save done), "loaded" (load done)
    pc,         \* SpecConc: each session's position inside save_tracker
    sNonEmpty,  \* SpecConc: each session's result of the line-92 test
    sDf,        \* SpecConc: each session's local df (rows to write)
    sNew        \* SpecConc: the row each session saves

vars == <<file, before, df, trace, last, prior, newRows, spc, pc, sNonEmpty, sDf, sNew>>

(***************************************************************************)
(* Bounds of the model.                                                    *)
(***************************************************************************)
MaxRows == 2        \* Spec: rows the store may hold
MaxStoreRows == 3   \* SpecStore: rows the store may hold
MaxNew == 2         \* SpecStore: rows handed to one save_tracker call
MaxPrior == 1       \* SpecConc: rows in the file before the two saves

(***************************************************************************)
(* Values.  An in-memory cell is <<tag, text>>: a str, an int, a           *)
(* datetime.date, or NaN (a missing value).  A cell of the CSV file is     *)
(* plain text.  A row is the sequence of its cells, in column order.       *)
(***************************************************************************)
StrV(s) == <<"str", s>>
IntV(s) == <<"int", s>>
DateV(s) == <<"date", s>>
NaN == <<"nan", "">>

DeclaredColumns ==
    <<"Role", "Company", "Date Applied", "Expected Salary", "Status", "Fit Summary">>

Range(s) == {s[i] : i \in DOMAIN s}

EmptyTable == [columns |-> DeclaredColumns, rows |-> <<>>]

\* pandas raises EmptyDataError when read_csv finds no header line.
EmptyDataError == [columns |-> <<"EmptyDataError">>, rows |-> <<>>]

(***************************************************************************)
(* pandas' CSV conversions, as the calls of lines 88, 93 and 95 use them   *)
(* (all defaults).                                                         *)
(***************************************************************************)
\* read_csv's default na_values that the model's inputs can produce.
NaTexts == {"", "N/A"}

\* Texts read_csv parses as integers.  In the model they occur only in the
\* Expected Salary column, so the column-wise inference is the cell-wise one.
IntTexts == {"0", "1000"}

\* to_csv: a missing value is written as the empty field (na_rep = ''),
\* every other value as its str().
FormatCell(v) == IF v[1] = "nan" THEN "" ELSE v[2]

\* read_csv: an NA text becomes NaN, an integer text an int, the rest str.
ParseCell(c) ==
    IF c \in NaTexts THEN NaN
    ELSE IF c \in IntTexts THEN IntV(c)
    ELSE StrV(c)

\* df.to_csv(index=False): the header line, then one line per row.
to_csv(t) ==
    <<t.columns>> \o
    [i \in 1..Len(t.rows) |->
        [j \in 1..Len(t.columns) |-> FormatCell(t.rows[i][j])]]

\* pd.read_csv(DATA_FILE): the first line names the columns.
read_csv(lines) ==
    IF Len(lines) = 0 THEN EmptyDataError
    ELSE [columns |-> lines[1],
          rows |-> [i \in 1..(Len(lines) - 1) |->
                      [j \in 1..Len(lines[1]) |-> ParseCell(lines[i + 1][j])]]]

\* pd.concat([a, b], ignore_index=True); every table of the model has the
\* declared columns, so the column union is a's columns.
concat(a, b) == [columns |-> a.columns, rows |-> a.rows \o b.rows]

\* pd.DataFrame(rows): the columns are the keys of the row dict (line 121).
DataFrame(rows) == [columns |-> DeclaredColumns, rows |-> rows]

(***************************************************************************)
(* The tracker store.                                                      *)
(***************************************************************************)
Absent == [exists |-> FALSE, lines |-> <<>>]
ZeroLength == [exists |-> TRUE, lines |-> <<>>]

\* os.path.exists(DATA_FILE) and os.path.getsize(DATA_FILE) > 0
NonEmptyFile(f) == f.exists /\ Len(f.lines) > 0

\* Faulty variant: load_tracker without the getsize test.
load_tracker_NoSizeTest(f) ==
    IF ~f.exists THEN EmptyTable ELSE read_csv(f.lines)

load_tracker(f) ==
    IF ~f.exists \/ Len(f.lines) = 0 THEN EmptyTable ELSE read_csv(f.lines)

\* Faulty variant: pd.concat([df, existing_df]).
ToWrite_NewFirst(f, nonEmpty, t) ==
    IF nonEmpty THEN concat(t, read_csv(f.lines)) ELSE t

\* Lines 92-94: the table save_tracker is about to write, given the result
\* of its test of the file.
ToWrite(f, nonEmpty, t) ==
    IF nonEmpty THEN concat(read_csv(f.lines), t) ELSE t

\* Faulty variant: save_tracker that writes df without the existing rows.
save_tracker_Overwrite(f, t) == [exists |-> TRUE, lines |-> to_csv(t)]

\* Faulty variant: save_tracker that puts the new rows first.
save_tracker_NewFirst(f, t) ==
    [exists |-> TRUE, lines |-> to_csv(ToWrite_NewFirst(f, NonEmptyFile(f), t))]

\* The file a save_tracker(df) that runs alone leaves.
save_tracker(f, t) ==
    [exists |-> TRUE, lines |-> to_csv(ToWrite(f, NonEmptyFile(f), t))]

RowCount(f) == Len(load_tracker(f).rows)

\* What a row reads back as once to_csv has written it and read_csv parsed it.
ReadBack(r) == [j \in DOMAIN r |-> ParseCell(FormatCell(r[j]))]
ReadBackRows(rows) == [i \in DOMAIN rows |-> ReadBack(rows[i])]

(***************************************************************************)
(* Helper functions of the pipeline.                                       *)
(***************************************************************************)
RECURSIVE JoinLines(_)
\* "\n".join(parts)
JoinLines(parts) ==
    IF Len(parts) = 0 THEN ""
    ELSE IF Len(parts) = 1 THEN parts[1]
    ELSE parts[1] \o "\n" \o JoinLines(Tail(parts))

NonEmptyText(s) == s /= ""

\* The uploaded file: its extension, the text of its pages or paragraphs,
\* and whether the parsing library fails on it.
NoCv == [present |-> FALSE, ext |-> "", parts |-> <<>>, corrupt |-> FALSE]
CvFiles ==
    {[present |-> TRUE, ext |-> ".pdf", parts |-> <<"p1", "", "p2">>, corrupt |-> FALSE],
     [present |-> TRUE, ext |-> ".pdf", parts |-> <<>>, corrupt |-> TRUE],
     [present |-> TRUE, ext |-> ".docx", parts |-> <<"q1", "">>, corrupt |-> FALSE],
     [present |-> TRUE, ext |-> ".PDF", parts |-> <<"p1">>, corrupt |-> FALSE]}

extract_text_from_pdf(f) ==
    IF f.corrupt THEN "Error reading PDF: e"
    ELSE JoinLines(SelectSeq(f.parts, NonEmptyText))

extract_text_from_docx(f) ==
    IF f.corrupt THEN "Error reading DOCX: e"
    ELSE JoinLines(f.parts)

get_cv_text(f) ==
    IF f.ext = ".pdf" THEN extract_text_from_pdf(f)
    ELSE IF f.ext = ".docx" THEN extract_text_from_docx(f)
    ELSE ""

\* The backend's answer to one generate_content call: a text, or an exception.
BackendAnswers(text) == {[ok |-> TRUE, text |-> text], [ok |-> FALSE, text |-> "e"]}
NoAnswer == [ok |-> FALSE, text |-> ""]

analyze_cv_fit(cv_text, jd_text, answer) ==
    IF answer.ok THEN answer.text ELSE "Error analyzing CV: " \o answer.text

generate_interview_questions(jd_text, role, answer) ==
    IF answer.ok THEN answer.text ELSE "Error generating questions: " \o answer.text

(***************************************************************************)
(* The form and the script run.                                            *)
(***************************************************************************)
StatusOptions == {"Applied", "Interview", "Offer Accepted", "Offer Rejected"}
\* The role is left at the text input's default; SpecStore varies it.
RoleInputs == {""}
JobDescInputs == {"", "jd"}
Today == DateV("2026-11-03")

\* One entry of the run's trace: a call of a helper or a ui output.
Call(name, arg) == <<"call", name, arg>>
Ui(name, text) == <<"ui", name, text>>

\* The row dict of lines 121-128.
Row(role, status, fit_summary) ==
    <<StrV(role), StrV("acme"), Today, IntV("0"), StrV(status), StrV(fit_summary)>>

\* Faulty variant: the input gate without the job description.
InputsGiven_CvOnly(cv, jd) == cv.present

\* cv_file and job_desc (line 116)
InputsGiven(cv, jd) == cv.present /\ jd /= ""

Gated(key, cv, jd) == key /\ InputsGiven(cv, jd)

\* Faulty variant: the questions whatever the status.
InterviewBranch_Always(status, jd, role, qAns) ==
    <<Ui("subheader", "AI-Generated Interview Questions"),
      Call("generate_interview_questions", role),
      Ui("write", generate_interview_questions(jd, role, qAns))>>

\* Faulty variant: no questions at all.
InterviewBranch_Never(status, jd, role, qAns) == <<>>

\* Lines 135-137: the interview questions.
InterviewBranch(status, jd, role, qAns) ==
    IF status = "Interview"
    THEN <<Ui("subheader", "AI-Generated Interview Questions"),
           Call("generate_interview_questions", role),
           Ui("write", generate_interview_questions(jd, role, qAns))>>
    ELSE <<>>

\* Variant in the order of the overview: the questions before the append.
SuccessPath_QuestionsFirst(f, cv, jd, role, status, fitAns, qAns) ==
    LET cv_text == get_cv_text(cv)
        fit_summary == analyze_cv_fit(cv_text, jd, fitAns)
    IN  [file |-> save_tracker(f, DataFrame(<<Row(role, status, fit_summary)>>)),
         trace |-> <<Call("get_cv_text", cv.ext),
                     Call("analyze_cv_fit", cv_text)>>
                   \o InterviewBranch(status, jd, role, qAns)
                   \o <<Call("save_tracker", fit_summary),
                        Ui("success", "Application saved and analyzed!"),
                        Ui("subheader", "Fit Summary:"),
                        Ui("write", fit_summary)>>]

\* Faulty variant: a backend failure ends the handler before the save.
SuccessPath_AbortOnError(f, cv, jd, role, status, fitAns, qAns) ==
    LET cv_text == get_cv_text(cv)
        fit_summary == analyze_cv_fit(cv_text, jd, fitAns)
    IN  IF fitAns.ok
        THEN [file |-> save_tracker(f, DataFrame(<<Row(role, status, fit_summary)>>)),
              trace |-> <<Call("get_cv_text", cv.ext),
                          Call("analyze_cv_fit", cv_text),
                          Call("save_tracker", fit_summary),
                          Ui("success", "Application saved and analyzed!"),
                          Ui("subheader", "Fit Summary:"),
                          Ui("write", fit_summary)>>
                        \o InterviewBranch(status, jd, role, qAns)]
        ELSE [file |-> f,
              trace |-> <<Call("get_cv_text", cv.ext),
                          Call("analyze_cv_fit", cv_text)>>]

\* Lines 117-137: the success path; the file it leaves and its trace.
SuccessPath(f, cv, jd, role, status, fitAns, qAns) ==
    LET cv_text == get_cv_text(cv)
        fit_summary == analyze_cv_fit(cv_text, jd, fitAns)
    IN  [file |-> save_tracker(f, DataFrame(<<Row(role, status, fit_summary)>>)),
         trace |-> <<Call("get_cv_text", cv.ext),
                     Call("analyze_cv_fit", cv_text),
                     Call("save_tracker", fit_summary),
                     Ui("success", "Application saved and analyzed!"),
                     Ui("subheader", "Fit Summary:"),
                     Ui("write", fit_summary)>>
                   \o InterviewBranch(status, jd, role, qAns)]

\* Faulty variant: the handler without the credential gate.
Handler_NoKeyGate(f, key, cv, jd, role, status, fitAns, qAns) ==
    IF InputsGiven(cv, jd)
    THEN SuccessPath(f, cv, jd, role, status, fitAns, qAns)
    ELSE [file |-> f,
          trace |-> <<Ui("warning", "Please upload your CV and paste the job description.")>>]

\* Lines 113-139: the button's handler; the file it leaves and its trace.
Handler(f, key, cv, jd, role, status, fitAns, qAns) ==
    IF ~key
    THEN [file |-> f,
          trace |-> <<Ui("error", "Missing Gemini API Key. Please set it in your .env file.")>>]
    ELSE IF InputsGiven(cv, jd)
    THEN SuccessPath(f, cv, jd, role, status, fitAns, qAns)
    ELSE [file |-> f,
          trace |-> <<Ui("warning", "Please upload your CV and paste the job description.")>>]

\* Lines 141-148: the tracker display that ends every script run.
DisplayTrace(f) ==
    <<Ui("header", "My Job Applications"),
      Call("load_tracker", ""),
      Ui("dataframe", "")>>
    \o (IF Len(load_tracker(f).rows) > 0
        THEN <<Ui("download_button", "job_tracker.csv")>>
        ELSE <<>>)

\* Lines 100-110: the title and the input widgets.
FormTrace == <<Ui("inputs", "")>>

NoInputs ==
    [clicked |-> FALSE, key |-> FALSE, hasCv |-> FALSE, jd |-> "", status |-> "Applied"]

StoreIdle == prior = EmptyTable /\ newRows = <<>> /\ spc = "idle"
ConcIdle == pc = <<>> /\ sNonEmpty = <<>> /\ sDf = <<>> /\ sNew = <<>>
AppIdle == trace = <<>> /\ last = NoInputs

\* A script run with the button clicked.  The role and the backend's answers
\* are read on the success path only, the second answer only for "Interview".
Submit ==
    \E key \in BOOLEAN, cv \in CvFiles \cup {NoCv}, jd \in JobDescInputs,
       status \in StatusOptions :
      \E role \in (IF Gated(key, cv, jd) THEN RoleInputs ELSE {""}),
         fitAns \in (IF Gated(key, cv, jd) THEN BackendAnswers("fit")
                     ELSE {NoAnswer}),
         qAns \in (IF Gated(key, cv, jd) /\ status = "Interview"
                   THEN BackendAnswers("questions") ELSE {NoAnswer}) :
        LET h == Handler(file, key, cv, jd, role, status, fitAns, qAns)
        IN  /\ Gated(key, cv, jd) => RowCount(file) < MaxRows
            /\ file' = h.file
            /\ before' = file
            /\ trace' = FormTrace \o h.trace \o DisplayTrace(h.file)
            /\ df' = load_tracker(h.file)
            /\ last' = [clicked |-> TRUE, key |-> key, hasCv |-> cv.present,
                        jd |-> jd, status |-> status]
            /\ UNCHANGED <<prior, newRows, spc, pc, sNonEmpty, sDf, sNew>>

\* A script run without the button: the form and the tracker display.
Render ==
    /\ trace' = FormTrace \o DisplayTrace(file)
    /\ df' = load_tracker(file)
    /\ last' = NoInputs
    /\ before' = file
    /\ UNCHANGED <<file, prior, newRows, spc, pc, sNonEmpty, sDf, sNew>>

Init ==
    /\ file \in {Absent, ZeroLength}
    /\ before = file
    /\ df = EmptyTable
    /\ AppIdle
    /\ StoreIdle
    /\ ConcIdle

Next == Submit \/ Render

Spec == Init /\ [][Next]_vars

(***************************************************************************)
(* SpecStore: save_tracker and load_tracker on their own.                  *)
(***************************************************************************)
StoreRoles == {"", "N/A", "dev"}
StoreRow(role) == Row(role, "Applied", "fit")

\* The non-empty lists of at most MaxNew rows.
NewRowLists ==
    UNION {[1..n -> {StoreRow(r) : r \in StoreRoles}] : n \in 1..MaxNew}

\* A file that holds the header and no row.
HeaderOnly == [exists |-> TRUE, lines |-> to_csv(EmptyTable)]

StoreSave ==
    \E new \in NewRowLists :
        /\ RowCount(file) + Len(new) <= MaxStoreRows
        /\ prior' = load_tracker(file)
        /\ file' = save_tracker(file, DataFrame(new))
        /\ before' = file
        /\ newRows' = new
        /\ spc' = "saved"
        /\ UNCHANGED <<df, trace, last, pc, sNonEmpty, sDf, sNew>>

StoreLoad ==
    /\ df' = load_tracker(file)
    /\ spc' = "loaded"
    /\ before' = file
    /\ UNCHANGED <<file, prior, newRows, trace, last, pc, sNonEmpty, sDf, sNew>>

InitStore ==
    /\ file \in {Absent, ZeroLength, HeaderOnly}
    /\ before = file
    /\ df = EmptyTable
    /\ AppIdle
    /\ StoreIdle
    /\ ConcIdle

NextStore == StoreSave \/ StoreLoad

SpecStore == InitStore /\ [][NextStore]_vars

(***************************************************************************)
(* SpecConc: two sessions inside save_tracker at once.  Each step is one   *)
(* file-system operation of lines 91-95; nothing orders the sessions.      *)
(***************************************************************************)
Sessions == {1, 2}
SessionRow(s) == StoreRow(IF s = 1 THEN "s1" ELSE "s2")
PriorRows(k) == [i \in 1..k |-> ReadBack(StoreRow("old"))]

\* Writing at offset 0 of a file another session has refilled since this
\* session truncated it leaves that session's lines beyond the written ones
\* (taken line by line; a line torn in the middle is not modelled).
Overlay(new, old) == new \o SubSeq(old, Len(new) + 1, Len(old))

\* Line 92: the test of the file.
ConcTest(s) ==
    /\ pc[s] = "start"
    /\ sNonEmpty' = [sNonEmpty EXCEPT ![s] = NonEmptyFile(file)]
    /\ pc' = [pc EXCEPT ![s] = "tested"]
    /\ UNCHANGED <<file, before, df, trace, last, prior, newRows, spc, sDf, sNew>>

\* Lines 93-94: read the file and concatenate; read_csv raises on a file
\* that has become empty since the test.
ConcRead(s) ==
    /\ pc[s] = "tested"
    /\ IF sNonEmpty[s] /\ read_csv(file.lines) = EmptyDataError
       THEN /\ pc' = [pc EXCEPT ![s] = "raised"]
            /\ UNCHANGED sDf
       ELSE /\ sDf' = [sDf EXCEPT ![s] = ToWrite(file, sNonEmpty[s], DataFrame(<<sNew[s]>>))]
            /\ pc' = [pc EXCEPT ![s] = "ready"]
    /\ UNCHANGED <<file, before, df, trace, last, prior, newRows, spc, sNonEmpty, sNew>>

\* Line 95, to_csv opening the file for writing: it is created or truncated.
ConcOpen(s) ==
    /\ pc[s] = "ready"
    /\ file' = ZeroLength
    /\ pc' = [pc EXCEPT ![s] = "opened"]
    /\ UNCHANGED <<before, df, trace, last, prior, newRows, spc, sNonEmpty, sDf, sNew>>

\* Line 95, to_csv writing the table and closing the file.
ConcWrite(s) ==
    /\ pc[s] = "opened"
    /\ file' = [exists |-> TRUE, lines |-> Overlay(to_csv(sDf[s]), file.lines)]
    /\ pc' = [pc EXCEPT ![s] = "done"]
    /\ UNCHANGED <<before, df, trace, last, prior, newRows, spc, sNonEmpty, sDf, sNew>>

InitConc ==
    /\ file \in {Absent, ZeroLength}
                \cup {[exists |-> TRUE, lines |-> to_csv(DataFrame(PriorRows(k)))] :
                        k \in 0..MaxPrior}
    /\ prior = load_tracker(file)
    /\ before = file
    /\ df = EmptyTable
    /\ AppIdle
    /\ newRows = <<>>
    /\ spc = "idle"
    /\ pc = [s \in Sessions |-> "start"]
    /\ sNonEmpty = [s \in Sessions |-> FALSE]
    /\ sDf = [s \in Sessions |-> EmptyTable]
    /\ sNew = [s \in Sessions |-> SessionRow(s)]

NextConc ==
    \E s \in Sessions : ConcTest(s) \/ ConcRead(s) \/ ConcOpen(s) \/ ConcWrite(s)

SpecConc == InitConc /\ [][NextConc]_vars

(***************************************************************************)
(* Reading the trace and the tables.                                       *)
(***************************************************************************)
IdxCall(tr, name) == {i \in DOMAIN tr : tr[i][1] = "call" /\ tr[i][2] = name}
IdxUi(tr, name) == {i \in DOMAIN tr : tr[i][1] = "ui" /\ tr[i][2] = name}
IdxWrite(tr, texts) ==
    {i \in DOMAIN tr : tr[i][1] = "ui" /\ tr[i][2] = "write" /\ tr[i][3] \in texts}
CallNames(tr) == {tr[i][2] : i \in {j \in DOMAIN tr : tr[j][1] = "call"}}
UiNames(tr) == {tr[i][2] : i \in {j \in DOMAIN tr : tr[j][1] = "ui"}}

\* Both happen, and every entry of A comes before every entry of B.
Precedes(A, B) == A /= {} /\ B /= {} /\ \A i \in A, j \in B : i < j

FitTexts == {"fit", "Error analyzing CV: e"}
QuestionTexts == {"questions", "Error generating questions: e"}
FitSummaryColumn == CHOOSE j \in DOMAIN DeclaredColumns : DeclaredColumns[j] = "Fit Summary"
StatusColumn == CHOOSE j \in DOMAIN DeclaredColumns : DeclaredColumns[j] = "Status"
RoleColumn == CHOOSE j \in DOMAIN DeclaredColumns : DeclaredColumns[j] = "Role"

IsPrefix(a, b) == Len(a) <= Len(b) /\ SubSeq(b, 1, Len(a)) = a

\* The inputs of a run passed the credential gate and the input gate.
GatedInputs(l) == l.clicked /\ l.key /\ l.hasCv /\ l.jd /= ""
WasGated == GatedInputs(last)

C2_NoCredentialBlocks ==
    (last.clicked /\ ~last.key) =>
        /\ file = before
        /\ df.rows = load_tracker(before).rows
        /\ IdxUi(trace, "error") /= {}
        /\ CallNames(trace) \subseteq {"load_tracker"}
        /\ UiNames(trace) \cap {"success", "write", "subheader", "warning"} = {}

\* A submit with a CV and a job description but no credential, on a store
\* that holds rows.
C2_Witness ==
    /\ last.clicked /\ ~last.key /\ last.hasCv /\ last.jd = "jd"
    /\ IdxUi(trace, "error") /= {}
    /\ Len(df.rows) > 0

(***************************************************************************)
(* C3.  With the credential present but the CV missing or the job          *)
(* description empty, a submit shows the warning, creates no record, makes *)
(* no backend call and leaves the store untouched.                         *)
(***************************************************************************)
C3_MissingInputWarns ==
    (last.clicked /\ last.key /\ ~(last.hasCv /\ last.jd /= "")) =>
        /\ file = before
        /\ df.rows = load_tracker(before).rows
        /\ IdxUi(trace, "warning") /= {}
        /\ CallNames(trace) \subseteq {"load_tracker"}
        /\ UiNames(trace) \cap {"success", "write", "subheader", "error"} = {}

\* A submit with the credential and a CV but an empty job description, on a
\* store that holds rows.
C3_Witness ==
    /\ last.clicked /\ last.key /\ last.hasCv /\ last.jd = ""
    /\ IdxUi(trace, "warning") /= {}
    /\ Len(df.rows) > 0

C5_NoQuestionsUnlessInterview ==
    (last.clicked /\ last.status /= "Interview") =>
        IdxCall(trace, "generate_interview_questions") = {}

\* A gated submit with another status: saved, and no question was asked for.
C5_Witness ==
    /\ WasGated
    /\ last.status = "Offer Accepted"
    /\ IdxCall(trace, "save_tracker") /= {}
    /\ IdxCall(trace, "generate_interview_questions") = {}

(***************************************************************************)
(* C6.  A gated submit with Status "Interview" displays the fit summary    *)
(* analyze_cv_fit returned and the output of exactly one                   *)
(* generate_interview_questions call, and persists the record.             *)
(***************************************************************************)
C6_InterviewShowsBoth ==
    (WasGated /\ last.status = "Interview") =>
        /\ Cardinality(IdxCall(trace, "analyze_cv_fit")) = 1
        /\ Cardinality(IdxCall(trace, "generate_interview_questions")) = 1
        /\ Cardinality(IdxWrite(trace, QuestionTexts)) = 1
        /\ Cardinality(IdxCall(trace, "save_tracker")) = 1
        /\ Len(df.rows) > 0
        /\ df.rows[Len(df.rows)][StatusColumn] = StrV("Interview")
        /\ \E t \in FitTexts :
              /\ IdxWrite(trace, {t}) /= {}
              /\ df.rows[Len(df.rows)][FitSummaryColumn] = StrV(t)

\* An Interview submit whose summary and questions both came back.
C6_Witness ==
    /\ WasGated
    /\ last.status = "Interview"
    /\ IdxWrite(trace, {"fit"}) /= {}
    /\ IdxWrite(trace, {"questions"}) /= {}

(***************************************************************************)
(* C7.  load_tracker() on a file that does not exist or has length zero    *)
(* returns zero rows and exactly the declared columns, and does not create *)
(* or modify the file.                                                     *)
(***************************************************************************)
C7_LoadOfNoFile ==
    (spc = "loaded" /\ ~NonEmptyFile(before)) =>
        /\ df.columns =
              <<"Role", "Company", "Date Applied", "Expected Salary", "Status", "Fit Summary">>
        /\ df.rows = <<>>
        /\ file = before

\* load_tracker() has run on a zero-length file.
C7_Witness ==
    /\ spc = "loaded"
    /\ file.exists
    /\ Len(file.lines) = 0
    /\ df.rows = <<>>

(***************************************************************************)
(* C8.  An extraction failure or a backend failure never aborts a gated    *)
(* submit: it still appends exactly one record, whose Fit Summary is the   *)
(* backend's text or the error string, still shows the success message,    *)
(* and analyze_cv_fit is called exactly once.                              *)
(***************************************************************************)
C8_FailuresFlowThrough ==
    WasGated =>
        LET old == load_tracker(before).rows
            new == load_tracker(file).rows
            stored == file.lines[Len(file.lines)][FitSummaryColumn]
        IN  /\ Len(new) = Len(old) + 1
            /\ IsPrefix(old, new)
            /\ stored \in FitTexts
            /\ IdxWrite(trace, {stored}) /= {}
            /\ Cardinality(IdxUi(trace, "success")) = 1
            /\ Cardinality(IdxCall(trace, "get_cv_text")) = 1
            /\ Cardinality(IdxCall(trace, "analyze_cv_fit")) = 1

\* Both failed: the extraction error went to the analyzer, the analyzer's
\* error string was stored and the success message shown.
C8_Witness ==
    /\ WasGated
    /\ Call("analyze_cv_fit", "Error reading PDF: e") \in Range(trace)
    /\ Len(df.rows) > 0
    /\ df.rows[Len(df.rows)][FitSummaryColumn] = StrV("Error analyzing CV: e")
    /\ IdxUi(trace, "success") /= {}

(***************************************************************************)
(* C9.  The order of the steps of one gated submit: extractor, analyzer,   *)
(* (for "Interview") question generator, store append, then the summary    *)
(* and the table are rendered; the question generator runs before the      *)
(* store append.                                                           *)
(***************************************************************************)
\* C9 as claimed.
C9_QuestionsBeforeAppend ==
    WasGated =>
        /\ Precedes(IdxCall(trace, "get_cv_text"), IdxCall(trace, "analyze_cv_fit"))
        /\ Precedes(IdxCall(trace, "analyze_cv_fit"), IdxCall(trace, "save_tracker"))
        /\ last.status = "Interview" =>
              /\ Precedes(IdxCall(trace, "analyze_cv_fit"),
                          IdxCall(trace, "generate_interview_questions"))
              /\ Precedes(IdxCall(trace, "generate_interview_questions"),
                          IdxCall(trace, "save_tracker"))
        /\ Precedes(IdxCall(trace, "save_tracker"), IdxWrite(trace, FitTexts))
        /\ Precedes(IdxWrite(trace, FitTexts), IdxUi(trace, "dataframe"))

\* C9 as amended: extractor, analyzer, store append, the summary rendered,
\* then (for "Interview") the question generator and its output, then the
\* table loaded and rendered; the question generator runs after the append.
C9_AppendBeforeQuestions ==
    WasGated =>
        /\ Precedes(IdxCall(trace, "get_cv_text"), IdxCall(trace, "analyze_cv_fit"))
        /\ Precedes(IdxCall(trace, "analyze_cv_fit"), IdxCall(trace, "save_tracker"))
        /\ Precedes(IdxCall(trace, "save_tracker"), IdxWrite(trace, FitTexts))
        /\ last.status = "Interview" =>
              /\ Precedes(IdxCall(trace, "save_tracker"),
                          IdxCall(trace, "generate_interview_questions"))
              /\ Precedes(IdxWrite(trace, FitTexts),
                          IdxCall(trace, "generate_interview_questions"))
              /\ Precedes(IdxCall(trace, "generate_interview_questions"),
                          IdxWrite(trace, QuestionTexts))
              /\ Precedes(IdxWrite(trace, QuestionTexts), IdxCall(trace, "load_tracker"))
        /\ Precedes(IdxWrite(trace, FitTexts), IdxCall(trace, "load_tracker"))
        /\ Precedes(IdxCall(trace, "load_tracker"), IdxUi(trace, "dataframe"))

\* A gated Interview submit: the append, then the question generator.
C9_Witness ==
    /\ WasGated
    /\ last.status = "Interview"
    /\ Precedes(IdxCall(trace, "save_tracker"),
                IdxCall(trace, "generate_interview_questions"))

(***************************************************************************)
(* C10.  save_tracker takes no lock: two concurrent calls can end with the *)
(* prior rows and the new rows of only one of them (last writer wins),     *)
(* not prior + 2 rows.                                                     *)
(***************************************************************************)
AllDone == \A s \in Sessions : pc[s] = "done"

\* What a call can have computed from its own read of the file: its row
\* after nothing, after the prior rows, or after the prior rows and the
\* other call's row.
StaleTables(s) ==
    {<<sNew[s]>>, prior.rows \o <<sNew[s]>>}
    \cup {prior.rows \o <<ReadBack(sNew[o])>> \o <<sNew[s]>> : o \in Sessions \ {s}}

\* C10: once both calls have finished, the file starts with what one of them
\* wrote, which is its own row after what it had read, however stale; the
\* file never holds more than prior + 2 rows.
C10_LastWriterWins ==
    AllDone =>
        /\ RowCount(file) <= Len(prior.rows) + 2
        /\ \E s \in Sessions :
              /\ sDf[s].rows \in StaleTables(s)
              /\ IsPrefix(to_csv(sDf[s]), file.lines)

\* The lost update: both calls finished, and the file holds the prior rows
\* and one new row.
C10_LostUpdate ==
    /\ AllDone
    /\ Len(prior.rows) >= 1
    /\ \E s \in Sessions :
          load_tracker(file).rows = prior.rows \o <<ReadBack(sNew[s])>>

====
